---- MODULE Spec2Model ----
(***************************************************************************)
(* Model of src/chat_app.py: the metrics chat bot ChatApp.                 *)
(*                                                                         *)
(* A Python str is modelled as a sequence of tokens.  Text that the code   *)
(* inspects character by character (user input, metric names, labels,      *)
(* database text, formatted numbers) is a sequence of one-character        *)
(* tokens; the fixed fragments of the f-string templates are one token     *)
(* each.  A Python float is modelled in hundredths (an integer h stands    *)
(* for h/100); every float of the model's domain has at most two decimals, *)
(* so the ".2f" rendering is exact.                                        *)
(***************************************************************************)
EXTENDS Integers, Sequences, FiniteSets, TLC

VARIABLES
    pc,            \* "start" before __init__, "idle" in the Qt event loop, "crashed"
    conn,          \* self.conn: "None" or "open"
    cursor,        \* self.cursor: "None" or "open"
    storage,       \* the database file monitoreo.db as the program and the writer see it
    chat_history,  \* the messages appended to self.chat_history by the operation run last
    user_input,    \* the text left in the QLineEdit self.user_input
    sql_log,       \* the SQL statements the operation run last executed on self.cursor
    metric_key,    \* the local metric_key of the handle_input run last
    exc,           \* the exception that left the operation run last unhandled, or "none"
    called,        \* the methods of ChatApp the operation run last called
    processes      \* what psutil.process_iter yielded to the operation run last

vars == <<pc, conn, cursor, storage, chat_history, user_input, sql_log, metric_key,
          exc, called, processes>>

----------------------------------------------------------------------------
(* Python str methods used by the code                                     *)

\* The sequence f with every element evaluated: the model checker would
\* otherwise evaluate f[i] again at each use.  For the same reason a value
\* used more than once is passed as an operator argument (evaluated once)
\* rather than named in a LET
Tuple(f) == SubSeq(f, 1, Len(f))

LowerCaseLetters ==
    <<"a","b","c","d","e","f","g","h","i","j","k","l","m",
      "n","o","p","q","r","s","t","u","v","w","x","y","z">>

UpperCaseLetters ==
    <<"A","B","C","D","E","F","G","H","I","J","K","L","M",
      "N","O","P","Q","R","S","T","U","V","W","X","Y","Z">>

Digits == <<"0","1","2","3","4","5","6","7","8","9">>

Whitespace == {" ", "\t", "\n"}

IndexIn(c, alphabet) ==
    IF \E i \in 1..Len(alphabet) : alphabet[i] = c
    THEN CHOOSE i \in 1..Len(alphabet) : alphabet[i] = c
    ELSE 0

LowerChar(c) ==
    IF IndexIn(c, UpperCaseLetters) > 0
    THEN LowerCaseLetters[IndexIn(c, UpperCaseLetters)] ELSE c

UpperChar(c) ==
    IF IndexIn(c, LowerCaseLetters) > 0
    THEN UpperCaseLetters[IndexIn(c, LowerCaseLetters)] ELSE c

IsDigit(c) == IndexIn(c, Digits) > 0

DigitValue(c) == IndexIn(c, Digits) - 1

\* str.lower()
lower(s) == Tuple([i \in 1..Len(s) |-> LowerChar(s[i])])

\* str.strip()
RECURSIVE lstrip(_)
lstrip(s) ==
    IF s # <<>> /\ Head(s) \in Whitespace THEN lstrip(Tail(s)) ELSE s

RECURSIVE rstrip(_)
rstrip(s) ==
    IF s # <<>> /\ s[Len(s)] \in Whitespace
    THEN rstrip(SubSeq(s, 1, Len(s) - 1)) ELSE s

strip(s) == rstrip(lstrip(s))

\* str.replace(old, new) for a one-character old; new is a str (possibly empty)
RECURSIVE replace(_, _, _)
replace(s, old, new) ==
    IF s = <<>> THEN <<>>
    ELSE (IF Head(s) = old THEN new ELSE <<Head(s)>>) \o replace(Tail(s), old, new)

\* str.endswith(c) for a one-character c
endswith(s, c) == s # <<>> /\ s[Len(s)] = c

\* str.split(sep) for a one-character sep: always at least one part
RECURSIVE split(_, _)
split(s, sep) ==
    IF \A i \in 1..Len(s) : s[i] # sep THEN <<s>>
    ELSE LET k == CHOOSE i \in 1..Len(s) :
                      s[i] = sep /\ \A j \in 1..(i - 1) : s[j] # sep
         IN  <<SubSeq(s, 1, k - 1)>> \o split(SubSeq(s, k + 1, Len(s)), sep)

\* str.capitalize(): first character upper-cased, the rest lower-cased
capitalize(w) ==
    Tuple([i \in 1..Len(w) |-> IF i = 1 THEN UpperChar(w[i]) ELSE LowerChar(w[i])])

\* sep.join(parts)
RECURSIVE join(_, _)
join(sep, parts) ==
    IF parts = <<>> THEN <<>>
    ELSE IF Len(parts) = 1 THEN parts[1]
    ELSE parts[1] \o sep \o join(sep, Tail(parts))

\* str(n) for an int n
RECURSIVE NatStr(_)
NatStr(n) ==
    IF n < 10 THEN <<Digits[n + 1]>>
    ELSE NatStr(n \div 10) \o <<Digits[(n % 10) + 1]>>

IntStr(n) == IF n < 0 THEN <<"-">> \o NatStr(-n) ELSE NatStr(n)

\* The value of a run of decimal digits
RECURSIVE DigitsValue(_)
DigitsValue(s) ==
    IF s = <<>> THEN 0
    ELSE 10 * DigitsValue(SubSeq(s, 1, Len(s) - 1)) + DigitValue(s[Len(s)])

AllDigits(s) == \A i \in 1..Len(s) : IsDigit(s[i])

\* The digit groups the int() and float() literals accept: digits with single
\* underscores between digits
IsDigitRun(s) ==
    /\ s # <<>>
    /\ \A i \in 1..Len(s) : IsDigit(s[i]) \/ s[i] = "_"
    /\ IsDigit(s[1]) /\ IsDigit(s[Len(s)])
    /\ \A i \in 1..(Len(s) - 1) : ~(s[i] = "_" /\ s[i + 1] = "_")

Unsigned(s) == IF s # <<>> /\ Head(s) \in {"+", "-"} THEN Tail(s) ELSE s

Sign(s) == IF s # <<>> /\ Head(s) = "-" THEN -1 ELSE 1

\* int(s) for a str s: [ok |-> FALSE] stands for ValueError
ParseInt(s) ==
    LET Literal(sign, u) ==
            IF IsDigitRun(u)
            THEN [ok |-> TRUE, v |-> sign * DigitsValue(replace(u, "_", <<>>))]
            ELSE [ok |-> FALSE, v |-> 0]
        Stripped(t) == Literal(Sign(t), Unsigned(t))
    IN  Stripped(strip(s))

----------------------------------------------------------------------------
(* The metric catalog built by ChatApp.__init__                            *)

\* The metric names, one character per token
w_timestamp == <<"t","i","m","e","s","t","a","m","p">>

w_error == <<"e","r","r","o","r">>

k_cpu_percent == <<"c","p","u","_","p","e","r","c","e","n","t">>

k_cpu_load_percent ==
    <<"c","p","u","_","l","o","a","d","_","p","e","r","c","e","n","t">>

k_cpu_freq == <<"c","p","u","_","f","r","e","q">>

k_ram_percent == <<"r","a","m","_","p","e","r","c","e","n","t">>

k_ram_load_percent ==
    <<"r","a","m","_","l","o","a","d","_","p","e","r","c","e","n","t">>

k_ram_used == <<"r","a","m","_","u","s","e","d">>

k_ram_load_used == <<"r","a","m","_","l","o","a","d","_","u","s","e","d">>

k_ram_total == <<"r","a","m","_","t","o","t","a","l">>

k_ram_free == <<"r","a","m","_","f","r","e","e">>

k_ram_load_free == <<"r","a","m","_","l","o","a","d","_","f","r","e","e">>

k_disco_percent == <<"d","i","s","c","o","_","p","e","r","c","e","n","t">>

k_disk_used == <<"d","i","s","k","_","u","s","e","d">>

k_disk_total == <<"d","i","s","k","_","t","o","t","a","l">>

k_disk_free == <<"d","i","s","k","_","f","r","e","e">>

k_swap_percent == <<"s","w","a","p","_","p","e","r","c","e","n","t">>

k_swap_usado == <<"s","w","a","p","_","u","s","a","d","o">>

k_swap_total == <<"s","w","a","p","_","t","o","t","a","l">>

k_red_bytes_sent ==
    <<"r","e","d","_","b","y","t","e","s","_","s","e","n","t">>

k_red_bytes_recv ==
    <<"r","e","d","_","b","y","t","e","s","_","r","e","c","v">>

k_cpu_temp_celsius ==
    <<"c","p","u","_","t","e","m","p","_","c","e","l","s","i","u","s">>

k_battery_percent ==
    <<"b","a","t","t","e","r","y","_","p","e","r","c","e","n","t">>

k_cpu_power_package ==
    <<"c","p","u","_","p","o","w","e","r","_","p","a","c","k","a","g","e">>

k_cpu_power_cores ==
    <<"c","p","u","_","p","o","w","e","r","_","c","o","r","e","s">>

k_cpu_clocks == <<"c","p","u","_","c","l","o","c","k","s">>

k_hdd_used == <<"h","d","d","_","u","s","e","d">>

k_top_10_cpu == <<"t","o","p","_","1","0","_","c","p","u">>

\* self.metric_names
metric_names ==
    <<k_cpu_percent,
      k_cpu_load_percent,
      k_cpu_freq,
      k_ram_percent,
      k_ram_load_percent,
      k_ram_used,
      k_ram_load_used,
      k_ram_total,
      k_ram_free,
      k_ram_load_free,
      k_disco_percent,
      k_disk_used,
      k_disk_total,
      k_disk_free,
      k_swap_percent,
      k_swap_usado,
      k_swap_total,
      k_red_bytes_sent,
      k_red_bytes_recv,
      k_cpu_temp_celsius,
      k_battery_percent,
      k_cpu_power_package,
      k_cpu_power_cores,
      k_cpu_clocks,
      k_hdd_used,
      k_top_10_cpu>>

\* len(self.metric_names)
NumMetrics == Len(metric_names)

MetricNameSet == {metric_names[i] : i \in 1..NumMetrics}

top_10_cpu_label ==
    <<"T","o","p"," ","1","0"," ","A","p","p","s"," ",
      "H","i","g","h"," ","C","P","U">>

\* [part.capitalize() for part in name.split('_')]
RECURSIVE CapitalizeAll(_)
CapitalizeAll(parts) ==
    IF parts = <<>> THEN <<>>
    ELSE <<capitalize(Head(parts))>> \o CapitalizeAll(Tail(parts))

\* self.formatted_metric_names[name], for a name of self.metric_names
formatted_metric_names(name) ==
    IF name = k_top_10_cpu THEN top_10_cpu_label
    ELSE join(<<" ">>, CapitalizeAll(split(name, "_")))

\* Fault: the listing numbered as enumerate() numbers it without start=1
RECURSIVE MetricLinesFromZero(_)
MetricLinesFromZero(from) ==
    IF from > NumMetrics THEN <<>>
    ELSE IntStr(from - 1) \o <<". ">> \o formatted_metric_names(metric_names[from])
         \o <<"\n">> \o MetricLinesFromZero(from + 1)

\* The lines f"{i}. {formatted_name}\n" for i = from..NumMetrics
RECURSIVE MetricLines(_)
MetricLines(from) ==
    IF from > NumMetrics THEN <<>>
    ELSE IntStr(from) \o <<". ">> \o formatted_metric_names(metric_names[from])
         \o <<"\n">> \o MetricLines(from + 1)

\* metrics_list_str as built in __init__ and in handle_input
metrics_list_str == <<"Bot: Métricas disponibles:\n">> \o MetricLines(1)

invalid_metric_str ==
    <<"Métrica no válida. Por favor, escribe el número o nombre exacto de la métrica.\n\nBot: Métricas disponibles:\n">>
    \o MetricLines(1)

out_of_range_str ==
    <<"Número de métrica fuera de rango. Por favor, elige un número del 1 al ">>
    \o IntStr(NumMetrics) \o <<" o escribe 'opciones'.">>

greeting_str ==
    <<"¡Hola! Soy un bot de monitoreo del sistema. Escribe el número o nombre de una métrica para conocer su valor, o escribe 'opciones' para ver la lista de métricas.">>

sample_inserted_str == <<"Se han insertado datos de ejemplo en la base de datos.">>

no_conn_str == <<"No se pudo conectar a la base de datos.">>

no_rows_str == <<"No hay datos en la tabla de métricas.">>

no_data_str == <<"No se encontraron datos para esa métrica en la base de datos.">>

connect_error_str(e) == <<"Error al conectar con la base de datos: ">> \o e

read_error_str(e) == <<"Error al leer de la base de datos: ">> \o e

BotMessage(text) == [who |-> "bot", text |-> text]

UserMessage(text) == [who |-> "user", text |-> <<"Tú: ">> \o text]

----------------------------------------------------------------------------
(* Python values: what sqlite3 hands back for a column and what the code   *)
(* makes of it.  t is the Python type; n the number (an int, or a float    *)
(* in hundredths); s the text of a str, or "nan" / "inf" for such a float  *)

PyNone == [t |-> "None", n |-> 0, s |-> <<>>]

PyInt(i) == [t |-> "int", n |-> i, s |-> <<>>]

PyFloat(h) == [t |-> "float", n |-> h, s |-> <<>>]

PyFloatSpecial(word) == [t |-> "float_special", n |-> 0, s |-> word]

PyStr(text) == [t |-> "str", n |-> 0, s |-> text]

Abs(i) == IF i < 0 THEN -i ELSE i

\* Round p/q (q > 0) to the nearest integer, ties to even
RoundHalfEven(p, q) ==
    LET a == Abs(p)
        f == a \div q
        r == a % q
        m == IF 2 * r > q \/ (2 * r = q /\ f % 2 = 1) THEN f + 1 ELSE f
    IN  IF p < 0 THEN -m ELSE m

\* 10^k
RECURSIVE Pow10(_)
Pow10(k) == IF k = 0 THEN 1 ELSE 10 * Pow10(k - 1)

\* float(s) for a str s: [ok |-> FALSE] stands for ValueError.  The literal
\* forms covered: nan, inf, infinity (any case, signed), and signed decimals
\* "12", "12.", ".5", "12.50"; exponents are outside the model's texts
ParseFloat(s) ==
    LET Hundredths(ipd, fpd) ==
            RoundHalfEven(DigitsValue(ipd \o fpd) * 100, Pow10(Len(fpd)))
        Decimal(sign, parts, ip, fp) ==
            IF /\ Len(parts) \in {1, 2}
               /\ ip # <<>> \/ fp # <<>>
               /\ ip = <<>> \/ IsDigitRun(ip)
               /\ fp = <<>> \/ IsDigitRun(fp)
            THEN [ok |-> TRUE,
                  v |-> PyFloat(sign * Hundredths(replace(ip, "_", <<>>),
                                                  replace(fp, "_", <<>>)))]
            ELSE [ok |-> FALSE, v |-> PyNone]
        Number(sign, parts) ==
            Decimal(sign, parts, parts[1],
                    IF Len(parts) = 2 THEN parts[2] ELSE <<>>)
        Literal(sign, u, word) ==
            IF word = <<"n","a","n">>
            THEN [ok |-> TRUE, v |-> PyFloatSpecial(<<"n","a","n">>)]
            ELSE IF word \in {<<"i","n","f">>, <<"i","n","f","i","n","i","t","y">>}
            THEN [ok |-> TRUE,
                  v |-> PyFloatSpecial((IF sign < 0 THEN <<"-">> ELSE <<>>)
                                       \o <<"i","n","f">>)]
            ELSE Number(sign, split(u, "."))
        Unsign(sign, u) == Literal(sign, u, lower(u))
        Stripped(t) == Unsign(Sign(t), Unsigned(t))
    IN  Stripped(strip(s))

\* float(v): raised |-> "none" on success, else the exception type
ToFloat(v) ==
    LET OfStr(parsed) == IF parsed.ok
                         THEN [raised |-> "none", v |-> parsed.v]
                         ELSE [raised |-> "ValueError", v |-> v]
    IN  CASE v.t = "int"   -> [raised |-> "none", v |-> PyFloat(v.n * 100)]
          [] v.t = "float" -> [raised |-> "none", v |-> v]
          [] v.t = "float_special" -> [raised |-> "none", v |-> v]
          [] v.t = "str"   -> OfStr(ParseFloat(v.s))
          [] OTHER         -> [raised |-> "TypeError", v |-> v]

\* int(v): floats truncate towards zero
ToInt(v) ==
    LET OfStr(parsed) == IF parsed.ok
                         THEN [raised |-> "none", v |-> PyInt(parsed.v)]
                         ELSE [raised |-> "ValueError", v |-> v]
    IN  CASE v.t = "int"   -> [raised |-> "none", v |-> v]
          [] v.t = "float" ->
                [raised |-> "none",
                 v |-> PyInt((IF v.n < 0 THEN -1 ELSE 1) * (Abs(v.n) \div 100))]
          [] v.t = "float_special" ->
                [raised |-> IF v.s = <<"n","a","n">> THEN "ValueError"
                            ELSE "OverflowError", v |-> v]
          [] v.t = "str"   -> OfStr(ParseInt(v.s))
          [] OTHER         -> [raised |-> "TypeError", v |-> v]

Pad2(i) == IF i < 10 THEN <<"0">> \o NatStr(i) ELSE NatStr(i)

\* The ".2f" rendering of h hundredths
FixedTwo(h) ==
    (IF h < 0 THEN <<"-">> ELSE <<>>)
    \o NatStr(Abs(h) \div 100) \o <<".">> \o Pad2(Abs(h) % 100)

\* format(v, ".2f"): a str has no format code 'f'
Format2f(v) ==
    CASE v.t = "int"   -> [raised |-> "none", s |-> FixedTwo(v.n * 100)]
      [] v.t = "float" -> [raised |-> "none", s |-> FixedTwo(v.n)]
      [] v.t = "float_special" -> [raised |-> "none", s |-> v.s]
      [] v.t = "str"   -> [raised |-> "ValueError", s |-> <<>>]
      [] OTHER         -> [raised |-> "TypeError", s |-> <<>>]

BytesPerMB == 1048576

\* format(v / (1024**2), ".2f"): a str cannot be divided
FormatMB(v) ==
    CASE v.t = "int"   ->
            [raised |-> "none", s |-> FixedTwo(RoundHalfEven(v.n * 100, BytesPerMB))]
      [] v.t = "float" ->
            [raised |-> "none", s |-> FixedTwo(RoundHalfEven(v.n, BytesPerMB))]
      [] v.t = "float_special" -> [raised |-> "none", s |-> v.s]
      [] OTHER         -> [raised |-> "TypeError", s |-> <<>>]

----------------------------------------------------------------------------
(* The SQLite file: storage = [reachable, ncols, rows]                     *)
(*   reachable  the path of db_path can be opened by sqlite3.connect       *)
(*   ncols      the number of columns of table metricas, 0 when the table  *)
(*              does not exist                                             *)
(*   rows       the rows of metricas, each a tuple of ncols values whose   *)
(*              first column is the timestamp                              *)

\* The column list hardcoded in get_metrics_data
columns ==
    <<w_timestamp, k_cpu_percent, k_cpu_load_percent, k_cpu_freq,
      k_ram_percent, k_ram_load_percent, k_ram_used, k_ram_load_used,
      k_ram_total, k_ram_free, k_ram_load_free, k_disco_percent,
      k_disk_used, k_disk_total, k_disk_free, k_swap_percent,
      k_swap_usado, k_swap_total, k_red_bytes_sent, k_red_bytes_recv,
      k_cpu_temp_celsius, k_battery_percent, k_cpu_power_package,
      k_cpu_power_cores, k_cpu_clocks, k_hdd_used>>

NumColumns == Len(columns)

AsciiOrder ==
    <<" ", "%", "+", "-", ".", "/">> \o Digits \o <<":">> \o UpperCaseLetters
    \o <<"_">> \o LowerCaseLetters

\* Byte-wise comparison of two texts (SQLite's BINARY collation)
RECURSIVE StrLess(_, _)
StrLess(a, b) ==
    IF b = <<>> THEN FALSE
    ELSE IF a = <<>> THEN TRUE
    ELSE IF Head(a) = Head(b) THEN StrLess(Tail(a), Tail(b))
    ELSE IndexIn(Head(a), AsciiOrder) < IndexIn(Head(b), AsciiOrder)

\* SQLite's storage-class order: NULL, then numbers, then text
ClassRank(v) ==
    CASE v.t = "None" -> 0
      [] v.t \in {"int", "float"} -> 1
      [] OTHER -> 2

NumericValue(v) == IF v.t = "int" THEN v.n * 100 ELSE v.n

\* a sorts before b under ORDER BY
SqlLess(a, b) ==
    \/ ClassRank(a) < ClassRank(b)
    \/ ClassRank(a) = 1 /\ ClassRank(b) = 1 /\ NumericValue(a) < NumericValue(b)
    \/ ClassRank(a) = 2 /\ ClassRank(b) = 2 /\ StrLess(a.s, b.s)

\* The rows "ORDER BY timestamp DESC LIMIT 1" may return: SQLite picks any of
\* the rows whose timestamp no other row exceeds
LatestRows(st) ==
    {r \in st.rows : \A q \in st.rows : ~SqlLess(r[1], q[1])}

NoRow == <<>>

sql_create == "CREATE TABLE IF NOT EXISTS metricas"

sql_commit == "COMMIT"

sql_count == "SELECT COUNT(*) FROM metricas"

sql_insert == "INSERT INTO metricas"

sql_latest == "SELECT * FROM metricas ORDER BY timestamp DESC LIMIT 1"

err_locked == <<"database is locked">>

err_no_table == <<"no such table: metricas">>

err_readonly == <<"attempt to write a readonly database">>

err_no_column == <<"table metricas has no column named ">>

err_open == <<"unable to open database file">>

no_error == <<>>

\* The columns create_table declares INTEGER; the timestamp is TEXT, the
\* others REAL
IntegerColumns == {k_red_bytes_sent, k_red_bytes_recv}

IsIntegerColumn == Tuple([i \in 1..Len(columns) |-> columns[i] \in IntegerColumns])

\* What SQLite stores for a row of the table create_table declares: an int
\* bound to a REAL column is stored as a float
StoredRow(row) ==
    Tuple([i \in 1..Len(row) |->
             IF i > 1 /\ ~IsIntegerColumn[i] /\ row[i].t = "int"
             THEN PyFloat(row[i].n * 100) ELSE row[i]])

\* One statement run on self.cursor (commit on self.conn): the outcome of
\* running sql on storage st.  access is "rw" or "ro" (the program's
\* permission on the file), locked tells that another process holds the file,
\* arg is the row to insert, pick the row a SELECT ... LIMIT 1 returns.
\* err # no_error stands for sqlite3.OperationalError(err).
Execute(st, sql, access, locked, arg, pick) ==
    LET fail(e) == [err |-> e, storage |-> st, count |-> 0, row |-> NoRow]
        ok(s2, c, r) == [err |-> no_error, storage |-> s2, count |-> c, row |-> r]
    IN  IF locked THEN fail(err_locked)
        ELSE CASE sql = sql_create ->
                    IF st.ncols > 0 THEN ok(st, 0, NoRow)
                    ELSE IF access = "ro" THEN fail(err_readonly)
                    ELSE ok([st EXCEPT !.ncols = NumColumns], 0, NoRow)
               [] sql = sql_commit -> ok(st, 0, NoRow)
               [] sql = sql_count ->
                    IF st.ncols = 0 THEN fail(err_no_table)
                    ELSE ok(st, Cardinality(st.rows), NoRow)
               [] sql = sql_insert ->
                    IF st.ncols = 0 THEN fail(err_no_table)
                    ELSE IF st.ncols < NumColumns
                    THEN fail(err_no_column \o columns[st.ncols + 1])
                    ELSE IF access = "ro" THEN fail(err_readonly)
                    ELSE ok([st EXCEPT !.rows = @ \cup {StoredRow(arg)}], 0, NoRow)
               [] sql = sql_latest ->
                    IF st.ncols = 0 THEN fail(err_no_table)
                    ELSE ok(st, 0, pick)
               [] OTHER -> fail(<<"syntax error">>)

----------------------------------------------------------------------------
(* ChatApp.get_metrics_data                                                *)

Min(a, b) == IF a < b THEN a ELSE b

\* A Python dict is the sequence of its <<key, value>> items in insertion order
Has(dict, key) == \E i \in 1..Len(dict) : dict[i][1] = key

Get(dict, key) == dict[CHOOSE i \in 1..Len(dict) : dict[i][1] = key][2]

\* dict(zip(columns, row)): the shorter of the two decides the keys, so item
\* i of the dict has the key columns[i]
Zip(row) ==
    Tuple([i \in 1..Min(Len(columns), Len(row)) |-> <<columns[i], row[i]>>])

\* key in self.metric_names, for the keys of columns
IsMetricColumn == Tuple([i \in 1..Len(columns) |-> columns[i] \in MetricNameSet])

\* key in ['red_bytes_sent', 'red_bytes_recv'], for the keys of columns
IsByteCountColumn ==
    Tuple([i \in 1..Len(columns) |->
             columns[i] \in {k_red_bytes_sent, k_red_bytes_recv}])

\* One round of the "for key in metrics" loop, for key = columns[i]:
\* raised # "none" is an exception the loop's except clause
\* (ValueError, TypeError) does not catch
Coerce(i, value) ==
    LET Try(v1, conv) ==
            IF conv.raised = "none" THEN [raised |-> "none", v |-> conv.v]
            ELSE IF conv.raised \in {"ValueError", "TypeError"}
            THEN [raised |-> "none", v |-> v1]
            ELSE [raised |-> conv.raised, v |-> v1]
        Round(v1) ==
            IF IsMetricColumn[i] /\ v1.t # "None"
            THEN Try(v1, IF IsByteCountColumn[i] THEN ToInt(v1) ELSE ToFloat(v1))
            ELSE [raised |-> "none", v |-> v1]
    IN  Round(IF value.t = "str" /\ endswith(value.s, "%")
              THEN PyStr(replace(value.s, "%", <<>>)) ELSE value)

\* The first index of a sequence of outcomes that raised, 0 if none
FirstRaised(outcomes) ==
    IF \A i \in 1..Len(outcomes) : outcomes[i].raised = "none" THEN 0
    ELSE CHOOSE i \in 1..Len(outcomes) :
            /\ outcomes[i].raised # "none"
            /\ \A j \in 1..(i - 1) : outcomes[j].raised = "none"

\* The whole coercion loop: an uncaught exception of one key ends it
CoerceAll(metrics) ==
    LET Loop(outcomes, raising) ==
            IF raising = 0
            THEN [raised |-> "none",
                  metrics |->
                     Tuple([i \in 1..Len(metrics) |->
                              <<metrics[i][1], outcomes[i].v>>])]
            ELSE [raised |-> outcomes[raising].raised, metrics |-> metrics]
        Rounds(outcomes) == Loop(outcomes, FirstRaised(outcomes))
    IN  Rounds(Tuple([i \in 1..Len(metrics) |-> Coerce(i, metrics[i][2])]))

\* The "Aplicar el formato deseado" statements, in the order of the source:
\* the key and the text that follows the number
FormatSteps ==
    << <<k_cpu_percent, "%">>,       <<k_cpu_load_percent, "%">>,
       <<k_cpu_freq, " MHz">>,       <<k_ram_percent, "%">>,
       <<k_ram_load_percent, "%">>,  <<k_ram_used, " GB">>,
       <<k_ram_load_used, " GB">>,   <<k_ram_total, " GB">>,
       <<k_ram_free, " GB">>,        <<k_ram_load_free, " GB">>,
       <<k_disco_percent, "%">>,     <<k_disk_used, " GB">>,
       <<k_disk_total, " GB">>,      <<k_disk_free, " GB">>,
       <<k_swap_percent, "%">>,      <<k_swap_usado, " GB">>,
       <<k_swap_total, " GB">>,      <<k_red_bytes_sent, " MB">>,
       <<k_red_bytes_recv, " MB">>,  <<k_cpu_temp_celsius, " °C">>,
       <<k_battery_percent, "%">>,   <<k_cpu_power_package, " W">>,
       <<k_cpu_power_cores, " W">>,  <<k_hdd_used, " %">>,
       <<k_cpu_clocks, " MHz">> >>

\* The statements that divide by 1024**2 before formatting
IsByteCountStep ==
    Tuple([n \in 1..Len(FormatSteps) |->
             FormatSteps[n][1] \in {k_red_bytes_sent, k_red_bytes_recv}])

\* The item of the dict a statement addresses: the position of its key in columns
StepColumn ==
    Tuple([n \in 1..Len(FormatSteps) |-> IndexIn(FormatSteps[n][1], columns)])

\* The statement that formats item i of the dict, 0 if none does
ColumnStep ==
    Tuple([i \in 1..Len(columns) |->
             IF \E n \in 1..Len(FormatSteps) : StepColumn[n] = i
             THEN CHOOSE n \in 1..Len(FormatSteps) : StepColumn[n] = i
             ELSE 0])

\* Statement n on the dict: "if key in metrics and metrics[key] is not None"
\* guards the f-string, which raises on a value that is no number
FormatStep(n, metrics) ==
    LET Assign(text) ==
            [raised |-> text.raised, skipped |-> FALSE,
             s |-> text.s \o <<FormatSteps[n][2]>>]
        Statement(value) ==
            IF value.t = "None"
            THEN [raised |-> "none", skipped |-> TRUE, s |-> <<>>]
            ELSE Assign(IF IsByteCountStep[n] THEN FormatMB(value)
                        ELSE Format2f(value))
    IN  IF StepColumn[n] > Len(metrics)
        THEN [raised |-> "none", skipped |-> TRUE, s |-> <<>>]
        ELSE Statement(metrics[StepColumn[n]][2])

\* All formatting statements: the first one that raises ends the function
FormatAll(metrics) ==
    LET Statements(outcomes, raising) ==
            IF raising = 0
            THEN [raised |-> "none",
                  metrics |->
                     Tuple([i \in 1..Len(metrics) |->
                              IF ColumnStep[i] > 0 /\ ~outcomes[ColumnStep[i]].skipped
                              THEN <<metrics[i][1], PyStr(outcomes[ColumnStep[i]].s)>>
                              ELSE metrics[i]])]
            ELSE [raised |-> outcomes[raising].raised, metrics |-> metrics]
        Steps(outcomes) == Statements(outcomes, FirstRaised(outcomes))
    IN  Steps(Tuple([n \in 1..Len(FormatSteps) |-> FormatStep(n, metrics)]))

ErrorDict(message) == <<<<w_error, PyStr(message)>>>>

\* Lines 245-330: from the fetched row to the returned dict
FormatRow(row) ==
    LET Format(coerced) ==
            IF coerced.raised # "none" THEN coerced ELSE FormatAll(coerced.metrics)
    IN  Format(CoerceAll(Zip(row)))

\* get_metrics_data, given what the SELECT did: read = Execute(.., sql_latest, ..)
\* raised # "none" is an exception that leaves get_metrics_data
get_metrics_data(connected, read) ==
    IF ~connected
    THEN [raised |-> "none", metrics |-> ErrorDict(no_conn_str)]
    ELSE IF read.err # no_error
    THEN [raised |-> "none", metrics |-> ErrorDict(read_error_str(read.err))]
    ELSE IF read.row = NoRow
    THEN [raised |-> "none", metrics |-> ErrorDict(no_rows_str)]
    ELSE FormatRow(read.row)

----------------------------------------------------------------------------
(* datetime.strptime(text, "%Y-%m-%dT%H:%M:%S") and                        *)
(* strftime("%H:%M:%S %d/%m/%Y")                                           *)

IsLeap(y) == (y % 4 = 0 /\ y % 100 # 0) \/ y % 400 = 0

DaysIn(y, m) ==
    IF m = 2 THEN (IF IsLeap(y) THEN 29 ELSE 28)
    ELSE IF m \in {4, 6, 9, 11} THEN 30 ELSE 31

\* A strptime field of one or two digits
IsShortField(f) == Len(f) \in {1, 2} /\ AllDigits(f)

\* [ok |-> FALSE] stands for ValueError
strptime(text) ==
    LET Invalid == [ok |-> FALSE, year |-> 0, month |-> 0, day |-> 0,
                    hour |-> 0, minute |-> 0, second |-> 0]
        Fields(y, mo, d, h, mi, se) ==
            IF /\ y >= 1 /\ mo \in 1..12 /\ d >= 1 /\ d <= DaysIn(y, mo)
               /\ h <= 23 /\ mi <= 59 /\ se <= 59
            THEN [ok |-> TRUE, year |-> y, month |-> mo, day |-> d,
                  hour |-> h, minute |-> mi, second |-> se]
            ELSE Invalid
        Shaped(date, time) ==
            IF /\ Len(date) = 3 /\ Len(time) = 3
               /\ Len(date[1]) = 4 /\ AllDigits(date[1])
               /\ IsShortField(date[2]) /\ IsShortField(date[3])
               /\ IsShortField(time[1]) /\ IsShortField(time[2])
               /\ IsShortField(time[3])
            THEN Fields(DigitsValue(date[1]), DigitsValue(date[2]),
                        DigitsValue(date[3]), DigitsValue(time[1]),
                        DigitsValue(time[2]), DigitsValue(time[3]))
            ELSE Invalid
        DateTime(dt) ==
            IF Len(dt) = 2 THEN Shaped(split(dt[1], "-"), split(dt[2], ":"))
            ELSE Invalid
    IN  DateTime(split(text, "T"))

Pad4(i) ==
    IF i < 10 THEN <<"0","0","0">> \o NatStr(i)
    ELSE IF i < 100 THEN <<"0","0">> \o NatStr(i)
    ELSE IF i < 1000 THEN <<"0">> \o NatStr(i)
    ELSE NatStr(i)

strftime(dt) ==
    Pad2(dt.hour) \o <<":">> \o Pad2(dt.minute) \o <<":">> \o Pad2(dt.second)
    \o <<" ">> \o Pad2(dt.day) \o <<"/">> \o Pad2(dt.month) \o <<"/">> \o Pad4(dt.year)

\* The text of a value inside an f-string: str(value)
PyText(v) ==
    CASE v.t = "None"  -> <<"None">>
      [] v.t = "int"   -> IntStr(v.n)
      [] v.t = "float" -> FixedTwo(v.n)
      [] OTHER         -> v.s

\* Lines 452-461 of handle_input: the response for a key the dict holds.
\* raised # "none" is an exception the except clause (ValueError, KeyError,
\* IndexError) does not catch
value_response(key, metrics) ==
    LET Parsed(plain, dt_object) ==
            IF ~dt_object.ok
            THEN [raised |-> "none", text |-> plain]
            ELSE [raised |-> "none",
                  text |-> plain \o <<" (Última actualización: ">>
                           \o strftime(dt_object) \o <<")">>]
        Stamped(plain, raw_timestamp) ==
            IF raw_timestamp.t # "str"
            THEN [raised |-> "AttributeError", text |-> <<>>]
            ELSE Parsed(plain, strptime(split(raw_timestamp.s, ".")[1]))
        Respond(plain) ==
            IF ~Has(metrics, w_timestamp)
            THEN [raised |-> "none", text |-> plain]
            ELSE Stamped(plain, Get(metrics, w_timestamp))
        Value(formatted_name) ==
            Respond(<<"El valor de '">> \o formatted_name \o <<"' es: ">>
                    \o PyText(Get(metrics, key)))
    IN  Value(formatted_metric_names(key))

----------------------------------------------------------------------------
(* ChatApp.get_top_cpu_processes.  procs is what psutil.process_iter       *)
(* yields: per process its name, the cpu_percent sample (in whole percent  *)
(* points, so that cpu / 100 is exact in hundredths) and the outcome of    *)
(* sampling it: "OK", or the exception p.name() / p.cpu_percent() raised   *)

SwallowedErrors == {"NoSuchProcess", "AccessDenied", "ZombieProcess"}

\* The index of the first process whose exception the inner except clause
\* does not catch, 0 if none
FirstFatal(procs) ==
    IF \E i \in 1..Len(procs) : procs[i].outcome \notin SwallowedErrors \cup {"OK"}
    THEN CHOOSE i \in 1..Len(procs) :
            /\ procs[i].outcome \notin SwallowedErrors \cup {"OK"}
            /\ \A j \in 1..(i - 1) : procs[j].outcome \in SwallowedErrors \cup {"OK"}
    ELSE 0

IsOK(p) == p.outcome = "OK"

\* process_data after the enumeration loop (lines 350-368)
process_data(procs) == SelectSeq(procs, IsOK)

\* The names of process_data in first-encountered order, without repeats
RECURSIVE FirstSeen(_, _)
FirstSeen(pd, seen) ==
    IF pd = <<>> THEN <<>>
    ELSE IF Head(pd).name \in seen THEN FirstSeen(Tail(pd), seen)
    ELSE <<Head(pd).name>> \o FirstSeen(Tail(pd), seen \cup {Head(pd).name})

\* aggregated_data after lines 370-383, as the sequence of its items in
\* insertion order.  The "if p_info['status']" statement stands after the
\* for loop, so only the process visited last is counted
aggregated_data(pd) ==
    LET Items(names, last) ==
            Tuple([i \in 1..Len(names) |->
                     [name  |-> names[i],
                      count |-> IF names[i] = last.name THEN 1 ELSE 0,
                      cpu_percent |-> IF names[i] = last.name THEN last.cpu ELSE 0]])
    IN  Items(FirstSeen(pd, {}), pd[Len(pd)])

\* sorted(items, key=..., reverse=True) on a sequence of <<key, item>> pairs:
\* stable, the larger key first
RECURSIVE InsertDesc(_, _)
InsertDesc(sorted, x) ==
    IF sorted = <<>> THEN <<x>>
    ELSE IF Head(sorted)[1] >= x[1]
    THEN <<Head(sorted)>> \o InsertDesc(Tail(sorted), x)
    ELSE <<x>> \o sorted

RECURSIVE SortDesc(_)
SortDesc(pairs) ==
    IF pairs = <<>> THEN <<>>
    ELSE InsertDesc(SortDesc(SubSeq(pairs, 1, Len(pairs) - 1)), pairs[Len(pairs)])

\* sorted_processes (line 387)
sorted_processes(pd) ==
    LET Second(sorted) == Tuple([i \in 1..Len(sorted) |-> sorted[i][2]])
    IN  Second(SortDesc(Tuple([i \in 1..Len(pd) |-> <<pd[i].cpu, pd[i]>>])))

\* sorted_items (line 391): computed, never used for the report
sorted_items(pd) ==
    LET Second(sorted) == Tuple([i \in 1..Len(sorted) |-> sorted[i][2]])
        Sorted(items) ==
            Second(SortDesc(Tuple([i \in 1..Len(items) |->
                                     <<items[i].cpu_percent, items[i]>>])))
    IN  Sorted(aggregated_data(pd))

TopLimit == 10

\* The lines f"{i+1}. {proc['name']} - {proc['cpu_percent']/100:.2f}%\n"
RECURSIVE ReportLines(_, _)
ReportLines(listed, i) ==
    IF i > Len(listed) THEN <<>>
    ELSE IntStr(i) \o <<". ">> \o listed[i].name \o <<" - ">>
         \o FixedTwo(listed[i].cpu) \o <<"%\n">> \o ReportLines(listed, i + 1)

top_header_str == <<"Top 10 procesos con mayor consumo de CPU:\n">>

top_error_str(e) == <<"Error al obtener la lista de procesos: ">> \o e

err_unbound ==
    <<"cannot access local variable 'p_info' where it is not associated with a value">>

\* The text get_top_cpu_processes returns
get_top_cpu_processes(procs) ==
    LET Report(pd) ==
            IF pd = <<>>
            THEN top_error_str(err_unbound)
            ELSE top_header_str
                 \o ReportLines(SubSeq(sorted_processes(pd), 1,
                                       Min(TopLimit, Len(pd))), 1)
        Enumerate(fatal) ==
            IF fatal > 0
            THEN top_error_str(<<procs[fatal].outcome>>)
            ELSE Report(process_data(procs))
    IN  Enumerate(FirstFatal(procs))

----------------------------------------------------------------------------
(* ChatApp.generate_random_data and ChatApp.__init__                       *)

ts_prefix ==
    <<"2","0","2","5","-","0","1","-","0","2","T","0","3",":","0","4",":">>

\* An ISO timestamp "2025-01-02T03:04:SS"
IsoTime(second) == ts_prefix \o Pad2(second)

ts_fraction == <<".","1","2","3","4","5","6">>

\* generate_random_data: the dict's values in insertion order.  percent is
\* the draw of the random.uniform(0.0, 100.0) calls (in hundredths), sent the
\* draw of the random.randint calls, second the clock's second
generate_random_data(percent, sent, second) ==
    LET ram_total_gb  == 16
        disk_total_gb == 1000
    IN  << PyStr(IsoTime(second) \o ts_fraction),
           PyFloat(percent), PyFloat(percent), PyFloat(250),
           PyFloat(percent), PyFloat(percent),
           PyFloat((ram_total_gb * percent) \div 100),
           PyFloat((ram_total_gb * percent) \div 100),
           PyInt(ram_total_gb),
           PyFloat(ram_total_gb * 100 - (ram_total_gb * percent) \div 100),
           PyFloat(ram_total_gb * 100 - (ram_total_gb * percent) \div 100),
           PyFloat(percent),
           PyFloat((disk_total_gb * percent) \div 100),
           PyInt(disk_total_gb),
           PyFloat(disk_total_gb * 100 - (disk_total_gb * percent) \div 100),
           PyFloat(percent),
           PyFloat((2 * percent) \div 100),
           PyInt(2),
           PyInt(sent), PyInt(sent),
           PyFloat(percent), PyFloat(percent), PyFloat(percent), PyFloat(percent),
           PyInt(sent), PyFloat(percent) >>

LogEntry(sql, result) == [sql |-> sql, err |-> result.err, row |-> result.row]

\* Fault: insert_sample_data without its test of the row count
table_is_any(counted) == TRUE

\* insert_sample_data: "if self.cursor.fetchone()[0] == 0"
table_is_empty(counted) == counted.count = 0

\* __init__ from "Conexión a la base de datos" on.  access is the program's
\* permission on the file, lockedAt the statement (if any) that finds the
\* file locked by another process, sample the row generate_random_data made
Startup(access, lockedAt, sample) ==
    LET created  == Execute(storage, sql_create, access, lockedAt = sql_create,
                            NoRow, NoRow)
        counted  == Execute(created.storage, sql_count, access, lockedAt = sql_count,
                            NoRow, NoRow)
        inserted == Execute(created.storage, sql_insert, access, lockedAt = sql_insert,
                            sample, NoRow)
        welcome  == <<BotMessage(greeting_str), BotMessage(metrics_list_str)>>
        failed(e) == <<BotMessage(connect_error_str(e))>> \o welcome
    IN  /\ pc = "start"
        /\ pc' = "idle"
        /\ user_input' = <<>>
        /\ metric_key' = <<"None">>
        /\ exc' = "none"
        /\ processes' = <<>>
        /\ called' = IF ~storage.reachable THEN {}
                     ELSE IF created.err # no_error THEN {"create_table"}
                     ELSE {"create_table", "insert_sample_data"}
        /\ IF ~storage.reachable
           THEN \* sqlite3.connect raises
                /\ conn' = "None" /\ cursor' = "None"
                /\ storage' = storage
                /\ sql_log' = <<>>
                /\ chat_history' = failed(err_open)
           ELSE IF created.err # no_error
           THEN \* create_table raises
                /\ conn' = "None" /\ cursor' = "open"
                /\ storage' = storage
                /\ sql_log' = <<LogEntry(sql_create, created)>>
                /\ chat_history' = failed(created.err)
           ELSE IF counted.err # no_error
           THEN /\ conn' = "None" /\ cursor' = "open"
                /\ storage' = created.storage
                /\ sql_log' = <<LogEntry(sql_create, created),
                                LogEntry(sql_commit, created),
                                LogEntry(sql_count, counted)>>
                /\ chat_history' = failed(counted.err)
           ELSE IF ~table_is_empty(counted)
           THEN /\ conn' = "open" /\ cursor' = "open"
                /\ storage' = created.storage
                /\ sql_log' = <<LogEntry(sql_create, created),
                                LogEntry(sql_commit, created),
                                LogEntry(sql_count, counted)>>
                /\ chat_history' = welcome
           ELSE IF inserted.err # no_error
           THEN /\ conn' = "None" /\ cursor' = "open"
                /\ storage' = created.storage
                /\ sql_log' = <<LogEntry(sql_create, created),
                                LogEntry(sql_commit, created),
                                LogEntry(sql_count, counted),
                                LogEntry(sql_insert, inserted)>>
                /\ chat_history' = failed(inserted.err)
           ELSE /\ conn' = "open" /\ cursor' = "open"
                /\ storage' = inserted.storage
                /\ sql_log' = <<LogEntry(sql_create, created),
                                LogEntry(sql_commit, created),
                                LogEntry(sql_count, counted),
                                LogEntry(sql_insert, inserted),
                                LogEntry(sql_commit, inserted)>>
                /\ chat_history' = <<BotMessage(sample_inserted_str)>> \o welcome

----------------------------------------------------------------------------
(* ChatApp.handle_input                                                    *)

w_opciones == <<"o","p","c","i","o","n","e","s">>

NoKey == <<"None">>

\* Fault: the number recognised with str.isdigit(), which knows no sign
ResolveDigitsOnly(user_text) ==
    IF user_text # <<>> /\ AllDigits(user_text)
    THEN (IF 1 <= DigitsValue(user_text) /\ DigitsValue(user_text) <= Len(metric_names)
          THEN [in_range |-> TRUE, key |-> metric_names[DigitsValue(user_text)]]
          ELSE [in_range |-> FALSE, key |-> NoKey])
    ELSE [in_range |-> TRUE, key |-> replace(user_text, " ", <<"_">>)]

\* Lines 430-441: from user_text to metric_key.  in_range = FALSE is the
\* branch that answers "fuera de rango" and returns
Resolve(user_text) ==
    LET Number(num_input) ==
            IF num_input.ok
            THEN (IF 1 <= num_input.v /\ num_input.v <= Len(metric_names)
                  THEN [in_range |-> TRUE, key |-> metric_names[num_input.v]]
                  ELSE [in_range |-> FALSE, key |-> NoKey])
            ELSE [in_range |-> TRUE, key |-> replace(user_text, " ", <<"_">>)]
    IN  Number(ParseInt(user_text))

\* Fault: the lookup without its branch for the 'error' key
lookup_response_without_error(key, data) ==
    IF data.raised # "none" THEN [raised |-> data.raised, text |-> <<>>]
    ELSE IF Has(data.metrics, key) THEN value_response(key, data.metrics)
    ELSE [raised |-> "none", text |-> no_data_str]

\* The branch of lines 448-468 for a key of metric_names other than
\* top_10_cpu: data is what get_metrics_data did
lookup_response(key, data) ==
    IF data.raised # "none" THEN [raised |-> data.raised, text |-> <<>>]
    ELSE IF Has(data.metrics, key) THEN value_response(key, data.metrics)
    ELSE IF Has(data.metrics, w_error)
    THEN [raised |-> "none", text |-> PyText(Get(data.metrics, w_error))]
    ELSE [raised |-> "none", text |-> no_data_str]

\* Lines 417 and 477 around one append_bot_message: the echo, one bot
\* message, the input line cleared.  called names the methods that ran
Answered(user_text, answer, key, methods) ==
    [appended |-> <<UserMessage(user_text), BotMessage(answer)>>,
     cleared |-> TRUE, raised |-> "none", key |-> key, called |-> methods]

\* Fault: the membership test of line 448 placed before the test for
\* top_10_cpu of line 444
DispatchLookupFirst(user_text, metric, data, report) ==
    IF metric \in MetricNameSet
    THEN (IF lookup_response(metric, data).raised # "none"
          THEN [appended |-> <<UserMessage(user_text)>>, cleared |-> FALSE,
                raised |-> lookup_response(metric, data).raised, key |-> metric,
                called |-> {"get_metrics_data"}]
          ELSE Answered(user_text, lookup_response(metric, data).text, metric,
                        {"get_metrics_data"}))
    ELSE IF metric = k_top_10_cpu
    THEN Answered(user_text, report, metric, {"get_top_cpu_processes"})
    ELSE Answered(user_text, invalid_metric_str, metric, {})

\* Lines 443-475: the branches on metric_key.  data is the outcome of
\* get_metrics_data and report that of get_top_cpu_processes, each used only
\* on the branch that calls it
Dispatch(user_text, metric, data, report) ==
    LET Lookup(looked_up) ==
            IF looked_up.raised # "none"
            THEN [appended |-> <<UserMessage(user_text)>>, cleared |-> FALSE,
                  raised |-> looked_up.raised, key |-> metric,
                  called |-> {"get_metrics_data"}]
            ELSE Answered(user_text, looked_up.text, metric, {"get_metrics_data"})
    IN  IF metric = k_top_10_cpu
        THEN Answered(user_text, report, metric, {"get_top_cpu_processes"})
        ELSE IF metric \in MetricNameSet
        THEN Lookup(lookup_response(metric, data))
        ELSE Answered(user_text, invalid_metric_str, metric, {})

\* handle_input on the text of the input line.  The result: the messages
\* appended, whether the input line was cleared, the exception that left the
\* handler (or "none"), the local metric_key at the end, the methods called
handle_input(text, data, report) ==
    LET Resolved(user_text, resolved) ==
            IF ~resolved.in_range
            THEN Answered(user_text, out_of_range_str, NoKey, {})
            ELSE Dispatch(user_text, resolved.key, data, report)
        Handle(user_text) ==
            IF user_text = <<>>
            THEN [appended |-> <<>>, cleared |-> FALSE, raised |-> "none",
                  key |-> NoKey, called |-> {}]
            ELSE IF user_text = w_opciones
            THEN Answered(user_text, metrics_list_str, NoKey, {})
            ELSE Resolved(user_text, Resolve(user_text))
    IN  Handle(lower(strip(text)))

\* One press of Return in the input line holding text.  locked tells that the
\* file is locked by another process during the SELECT, pick is the row the
\* SELECT returns, procs the processes psutil enumerates
HandleInput(text, locked, pick, procs) ==
    LET Return(read, result, executed) ==
            /\ pc' = IF result.raised = "none" THEN "idle" ELSE "crashed"
            /\ exc' = result.raised
            /\ chat_history' = result.appended
            /\ user_input' = IF result.cleared THEN <<>> ELSE text
            /\ metric_key' = result.key
            /\ called' = result.called
            /\ processes' = IF "get_top_cpu_processes" \in result.called
                            THEN procs ELSE <<>>
            /\ sql_log' = IF executed THEN <<LogEntry(sql_latest, read)>> ELSE <<>>
            /\ storage' = IF executed THEN read.storage ELSE storage
        Handled(read, result) ==
            Return(read, result, "get_metrics_data" \in result.called /\ conn = "open")
        Run(read) ==
            Handled(read,
                    handle_input(text, get_metrics_data(conn = "open", read),
                                 get_top_cpu_processes(procs)))
    IN  /\ pc = "idle"
        /\ Run(Execute(storage, sql_latest, "rw", locked, NoRow, pick))
        /\ UNCHANGED <<conn, cursor>>

----------------------------------------------------------------------------
(* The environment: the external writer of monitoreo.db, the user's text,  *)
(* the processes of the machine                                            *)

\* The most rows the writer keeps in the table
MaxRows == 1

\* A row the writer stores: every REAL column 42.50, both byte counters 2 MiB
BaseRow(timestamp) ==
    Tuple([i \in 1..NumColumns |->
             IF i = 1 THEN timestamp
             ELSE IF IsIntegerColumn[i] THEN PyInt(2 * BytesPerMB)
             ELSE PyFloat(4250)])

\* The same row with the column of key holding value
RowWith(second, key, value) ==
    [BaseRow(PyStr(IsoTime(second))) EXCEPT ![IndexIn(key, columns)] = value]

\* Rows the writer may store in a table of the full schema: one per shape of
\* timestamp and one per shape of metric value
FullRows ==
    { BaseRow(PyStr(IsoTime(1))),
      BaseRow(PyStr(IsoTime(2) \o ts_fraction)),
      BaseRow(PyStr(IsoTime(3) \o <<"+","0","0",":","0","0">>)),
      BaseRow(PyStr(<<"a","y","e","r">>)),
      BaseRow(PyNone),
      BaseRow(PyInt(5)),
      RowWith(7, k_cpu_percent, PyStr(<<"a","b","c">>)),
      RowWith(8, k_cpu_percent, PyStr(<<"N","/","A">>)),
      RowWith(9, k_cpu_percent, PyStr(<<"4","5","%">>)),
      RowWith(10, k_cpu_percent, PyNone),
      RowWith(11, k_red_bytes_sent, PyStr(<<"a","b","c">>)) }

\* Tables whose schema has fewer columns than the program's list
FewColumns == 3

ShortRows ==
    { SubSeq(BaseRow(PyStr(IsoTime(1))), 1, FewColumns),
      SubSeq(RowWith(7, k_cpu_percent, PyStr(<<"a","b","c">>)), 1, FewColumns) }

WriterSchemas == {FewColumns, NumColumns}

WriterRows(ncols) == IF ncols = NumColumns THEN FullRows ELSE ShortRows

\* The timestamp is the table's primary key: no two rows share a non-null one
KeyIsFree(st, row) ==
    \A q \in st.rows : row[1].t = "None" \/ q[1] # row[1]

WriterCreateTable(ncols) ==
    /\ pc # "crashed" /\ storage.reachable /\ storage.ncols = 0
    /\ storage' = [storage EXCEPT !.ncols = ncols]
    /\ UNCHANGED <<pc, conn, cursor, chat_history, user_input, sql_log, metric_key,
                   exc, called, processes>>

WriterDropTable ==
    /\ pc # "crashed" /\ storage.reachable /\ storage.ncols > 0
    /\ storage' = [storage EXCEPT !.ncols = 0, !.rows = {}]
    /\ UNCHANGED <<pc, conn, cursor, chat_history, user_input, sql_log, metric_key,
                   exc, called, processes>>

WriterInsert(row) ==
    /\ pc # "crashed" /\ storage.reachable /\ storage.ncols > 0
    /\ row \in WriterRows(storage.ncols)
    /\ row \notin storage.rows
    /\ Cardinality(storage.rows) < MaxRows
    /\ KeyIsFree(storage, row)
    /\ storage' = [storage EXCEPT !.rows = @ \cup {row}]
    /\ UNCHANGED <<pc, conn, cursor, chat_history, user_input, sql_log, metric_key,
                   exc, called, processes>>

WriterDelete(row) ==
    /\ pc # "crashed" /\ storage.reachable
    /\ row \in storage.rows
    /\ storage' = [storage EXCEPT !.rows = @ \ {row}]
    /\ UNCHANGED <<pc, conn, cursor, chat_history, user_input, sql_log, metric_key,
                   exc, called, processes>>

Writer ==
    \/ \E ncols \in WriterSchemas : WriterCreateTable(ncols)
    \/ WriterDropTable
    \/ \E row \in FullRows \cup ShortRows : WriterInsert(row)
    \/ \E row \in storage.rows : WriterDelete(row)

\* Texts the user types
Spaced(text) == <<" ">> \o text \o <<" ", " ">>

UpperCased(text) == Tuple([i \in 1..Len(text) |-> UpperChar(text[i])])

Inputs ==
    { <<>>, <<" ", " ">>,
      w_opciones, Spaced(UpperCased(w_opciones)),
      <<"0">>, <<"-","1">>, <<"2","7">>, <<"9","9","9">>,
      <<"1">>, <<"2","6">>,
      k_red_bytes_sent, k_top_10_cpu,
      Spaced(formatted_metric_names(k_cpu_percent)),
      formatted_metric_names(k_top_10_cpu),
      <<"f","o","o">>, w_timestamp }

\* Processes psutil may enumerate
Proc(name, cpu, outcome) == [name |-> <<name>>, cpu |-> cpu, outcome |-> outcome]

ProcLists ==
    { <<>>,
      <<Proc("chrome", 0, "AccessDenied")>>,
      <<Proc("chrome", 0, "NoSuchProcess"), Proc("python", 0, "ZombieProcess")>>,
      <<Proc("chrome", 150, "OK")>>,
      <<Proc("chrome", 50, "OK"), Proc("python", 150, "OK"),
        Proc("chrome", 150, "OK")>>,
      <<Proc("python", 0, "OK"), Proc("chrome", 0, "AccessDenied"),
        Proc("chrome", 70, "OK")>>,
      <<Proc("chrome", 150, "OK"), Proc("python", 0, "OSError"),
        Proc("python", 150, "OK")>> }

\* The draws of generate_random_data
SampleRows ==
    {generate_random_data(percent, sent, 30) :
        percent \in {2500}, sent \in {100000, 3145728}}

Picks(st) == IF LatestRows(st) = {} THEN {NoRow} ELSE LatestRows(st)

----------------------------------------------------------------------------

Init ==
    /\ pc = "start"
    /\ conn = "None"
    /\ cursor = "None"
    /\ storage \in [reachable : BOOLEAN, ncols : {0}, rows : {{}}]
    /\ chat_history = <<>>
    /\ user_input = <<>>
    /\ sql_log = <<>>
    /\ metric_key = NoKey
    /\ exc = "none"
    /\ called = {}
    /\ processes = <<>>

Start ==
    \E access \in {"rw", "ro"}, lockedAt \in {"never", sql_create, sql_insert},
       sample \in SampleRows :
        Startup(access, lockedAt, sample)

\* What a text makes handle_input call, whatever the calls return
Calls(text) == handle_input(text, get_metrics_data(FALSE, NoRow), <<>>)

\* The environment's choices are drawn only for the call that consumes them
Command ==
    \E text \in Inputs :
        \E calls \in {Calls(text)} :
            \E locked \in IF "get_metrics_data" \in calls.called /\ conn = "open"
                           THEN BOOLEAN ELSE {FALSE},
               pick \in IF "get_metrics_data" \in calls.called /\ conn = "open"
                         THEN Picks(storage) ELSE {NoRow},
               procs \in IF "get_top_cpu_processes" \in calls.called
                         THEN ProcLists ELSE {<<>>} :
                HandleInput(text, locked, pick, procs)

Next == Start \/ Command \/ Writer

Spec == Init /\ [][Next]_vars

----------------------------------------------------------------------------
(* Properties                                                              *)

\* handle_input ran last, on a text that is not empty after strip()
LastCommand == chat_history # <<>> /\ chat_history[1].who = "user"

\* The user_text of that run, read off the echoed message
LastText == Tail(chat_history[1].text)

\* That run read the table and fetched a row
LastRead ==
    /\ LastCommand
    /\ sql_log # <<>> /\ sql_log[1].sql = sql_latest /\ sql_log[1].row # NoRow

\* C1: every command that is not empty ends with exactly one bot response
\* after the echoed user message and with the program waiting for input
\* again; no exception leaves handle_input
C1_EveryCommandAnswered ==
    LastCommand =>
        /\ Len(chat_history) = 2 /\ chat_history[2].who = "bot"
        /\ exc = "none" /\ pc = "idle"

\* C2: get_metrics_data does not raise on the row it fetched, and every metric
\* field the coercion loop leaves as text comes back as the str "N/A"
C2_NotCoercibleIsNA ==
    LastRead =>
        LET Formatted(row, data) ==
                /\ data.raised = "none"
                /\ \A i \in 1..Len(row) :
                     (IsMetricColumn[i] /\ Coerce(i, row[i]).v.t = "str")
                         => data.metrics[i][2] = PyStr(<<"N","/","A">>)
        IN  Formatted(sql_log[1].row, FormatRow(sql_log[1].row))

\* C3: for every ordinal k of the catalog, the display label of entry k
\* (lower-cased by handle_input, spaces replaced by underscores) leads to the
\* metric_key that the decimal string of k leads to
C3_LabelResolvesAsOrdinal ==
    \A k \in 1..NumMetrics :
        (LastCommand /\ LastText = lower(formatted_metric_names(metric_names[k])))
            => metric_key = Resolve(IntStr(k)).key

\* C4: a lookup of a metric kept in the table, made without a connection or
\* with a SELECT that fails, is answered by exactly the failure message
C4_StorageFailureMessage ==
    (LastCommand /\ metric_key \in MetricNameSet \ {k_top_10_cpu}) =>
        /\ conn # "open" =>
             /\ chat_history = <<chat_history[1], BotMessage(no_conn_str)>>
             /\ exc = "none"
        /\ (conn = "open" /\ sql_log # <<>> /\ sql_log[1].err # no_error) =>
             /\ chat_history =
                   <<chat_history[1], BotMessage(read_error_str(sql_log[1].err))>>
             /\ exc = "none"

\* C4 witness: cpu_percent asked by its ordinal while another process holds
\* the file locked, answered by the read failure message
C4_Witness ==
    /\ LastCommand /\ LastText = <<"1">> /\ metric_key = k_cpu_percent
    /\ conn = "open" /\ sql_log # <<>> /\ sql_log[1].err = err_locked
    /\ chat_history[2].text = read_error_str(err_locked)

\* C5: a command that resolves to top_10_cpu calls neither get_metrics_data
\* nor the cursor
C5_LiveProcessesSkipStorage ==
    (LastCommand /\ metric_key = k_top_10_cpu) =>
        /\ "get_metrics_data" \notin called
        /\ sql_log = <<>>

\* C5 witness: top_10_cpu asked by its ordinal, with a connection and a row in
\* the table, answered by a ranking
C5_Witness ==
    /\ LastCommand /\ LastText = <<"2","6">> /\ metric_key = k_top_10_cpu
    /\ conn = "open" /\ storage.rows # {}
    /\ called = {"get_top_cpu_processes"}
    /\ Len(chat_history) = 2 /\ Head(chat_history[2].text) = Head(top_header_str)

\* C6: when the enumeration yields no process, or only processes that
\* vanished or denied access, the answer is neither an error text nor a
\* ranking without entries
C6_NoActiveProcessesMessage ==
    (/\ LastCommand /\ "get_top_cpu_processes" \in called
     /\ \A i \in 1..Len(processes) : processes[i].outcome \in SwallowedErrors)
        => /\ Len(chat_history) = 2
           /\ Head(chat_history[2].text) # Head(top_error_str(<<>>))
           /\ chat_history[2].text # top_header_str

\* C7: "opciones" is answered by the header and one line "k. label" per
\* catalog entry, k = 1..N in the order of metric_names, whatever the storage,
\* without a call of get_metrics_data and without a statement on the cursor
C7_OpcionesListsCatalog ==
    (LastCommand /\ LastText = w_opciones) =>
        /\ Len(chat_history) = 2 /\ chat_history[2].who = "bot"
        /\ Head(chat_history[2].text) = "Bot: Métricas disponibles:\n"
        /\ LET Listed(lines) ==
                   /\ Len(lines) = NumMetrics + 1
                   /\ lines[NumMetrics + 1] = <<>>
                   /\ \A k \in 1..NumMetrics :
                        lines[k] = IntStr(k) \o <<". ">>
                                   \o formatted_metric_names(metric_names[k])
           IN  Listed(split(Tail(chat_history[2].text), "\n"))
        /\ called = {} /\ sql_log = <<>> /\ exc = "none"

\* C7 witness: " OPCIONES  " typed into a program that has no connection
C7_Witness ==
    /\ LastCommand /\ LastText = w_opciones
    /\ conn = "None" /\ ~storage.reachable
    /\ Len(chat_history) = 2

\* C8: a text that int() accepts with a value outside 1..N is answered only
\* by the out-of-range message, which names 1 and N; no metric is looked up
C8_OutOfRangeMessage ==
    LET OutOfRange(num_input) == num_input.ok /\ num_input.v \notin 1..NumMetrics
    IN  (LastCommand /\ OutOfRange(ParseInt(LastText))) =>
            /\ chat_history =
                  <<chat_history[1],
                    BotMessage(<<"Número de métrica fuera de rango. Por favor, elige un número del 1 al ">>
                               \o IntStr(Len(metric_names))
                               \o <<" o escribe 'opciones'.">>)>>
            /\ metric_key = NoKey /\ called = {} /\ sql_log = <<>>
            /\ exc = "none" /\ pc = "idle"

\* C8 witness: "-1" typed with a connection and a row in the table
C8_Witness ==
    /\ LastCommand /\ LastText = <<"-","1">>
    /\ conn = "open" /\ storage.rows # {}
    /\ Len(chat_history) = 2

\* C9: before the first command and between two commands the program holds
\* neither a connection nor a cursor
C9_NoHandleBetweenReads ==
    pc = "idle" => (conn = "None" /\ cursor = "None")

StartupWrites ==
    /\ pc = "start" /\ pc' = "idle"
    /\ storage'.reachable = storage.reachable
    /\ storage'.ncols = IF storage.ncols = 0 THEN NumColumns ELSE storage.ncols
    /\ \/ storage'.rows = storage.rows
       \/ /\ storage.rows = {}
          /\ storage'.ncols = NumColumns
          /\ Cardinality(storage'.rows) = 1

RECURSIVE SummedCpu(_, _)
SummedCpu(pd, name) ==
    IF pd = <<>> THEN 0
    ELSE (IF Head(pd).name = name THEN Head(pd).cpu ELSE 0)
         + SummedCpu(Tail(pd), name)

\* The number of processes of pd that carry the name
InstanceCount(pd, name) == Len(SelectSeq(pd, LAMBDA p : p.name = name))

\* The aggregation per name the claim describes: one entry per distinct name
\* in first-encountered order, then ordered by the summed cpu, larger first,
\* ties left in first-encountered order
RankedByName(pd) ==
    LET Entries(names) ==
            Tuple([i \in 1..Len(names) |->
                     [name  |-> names[i],
                      cpu   |-> SummedCpu(pd, names[i]),
                      count |-> InstanceCount(pd, names[i])]])
        Ranked(entries) ==
            LET sorted == SortDesc(Tuple([i \in 1..Len(entries) |->
                                            <<entries[i].cpu, entries[i]>>]))
            IN  Tuple([i \in 1..Len(sorted) |-> sorted[i][2]])
    IN  Ranked(Entries(FirstSeen(pd, {})))

\* C11: when the enumeration sampled at least one process and raised nothing
\* the inner except clause lets through, the report has one line per entry of
\* the first min(10, K) entries of the aggregation per name, in its order,
\* each with the summed cpu of its name; no name has two lines
C11_ReportListsAggregation ==
    LET Listed(ranked) ==
            chat_history =
                <<chat_history[1],
                  BotMessage(top_header_str
                             \o ReportLines(SubSeq(ranked, 1,
                                                   Min(TopLimit, Len(ranked))), 1))>>
    IN  (/\ LastCommand /\ "get_top_cpu_processes" \in called
         /\ FirstFatal(processes) = 0
         /\ process_data(processes) # <<>>)
            => Listed(RankedByName(process_data(processes)))

\* C12: a read that fetched a row with fewer values than columns has names
\* gives the dict of an error and no metric, and the lookup of a metric kept
\* in the table is answered by that error: neither by a value nor by the
\* message that the metric has no data
C12_ShortRowIsError ==
    LET Surfaced(data) ==
            /\ data.raised = "none"
            /\ Has(data.metrics, w_error)
            /\ \A i \in 1..Len(data.metrics) : data.metrics[i][1] \notin MetricNameSet
            /\ chat_history =
                  <<chat_history[1], BotMessage(PyText(Get(data.metrics, w_error)))>>
    IN  (/\ LastRead /\ Len(sql_log[1].row) < NumColumns
         /\ metric_key \in MetricNameSet \ {k_top_10_cpu})
            => Surfaced(FormatRow(sql_log[1].row))

\* The timestamp of the dict is None or no str, or its text before the first
\* "." is none that strptime accepts as %Y-%m-%dT%H:%M:%S
TimestampDoesNotParse(raw_timestamp) ==
    \/ raw_timestamp.t # "str"
    \/ ~strptime(split(raw_timestamp.s, ".")[1]).ok

\* C13: when get_metrics_data returned a dict that holds the metric asked for
\* and a timestamp that does not parse, the answer is exactly
\* "El valor de '{label}' es: {value}", with no reformatted timestamp, and no
\* exception leaves handle_input
C13_UnparsedTimestampStillAnswers ==
    LET Answers(data) ==
            (/\ data.raised = "none"
             /\ Has(data.metrics, metric_key)
             /\ Has(data.metrics, w_timestamp)
             /\ TimestampDoesNotParse(Get(data.metrics, w_timestamp)))
                => /\ chat_history =
                         <<chat_history[1],
                           BotMessage(<<"El valor de '">>
                                      \o formatted_metric_names(metric_key)
                                      \o <<"' es: ">>
                                      \o PyText(Get(data.metrics, metric_key)))>>
                   /\ exc = "none" /\ pc = "idle"
    IN  LastRead => Answers(FormatRow(sql_log[1].row))

====
